---- MODULE Spec2Model ----
(***************************************************************************)
(* PropertyIQ ML service (src/ml-service/api/main.py): the model cache,    *)
(* the startup load and the four request handlers /health, /predict,       *)
(* /comps and /investment-score, with the scoring helpers they call.       *)
(*                                                                         *)
(* Python floats are modelled by exact rationals <<n, d>> (d > 0, lowest   *)
(* terms) and int() by truncation toward zero.  The request values the     *)
(* handlers are driven with below are ones on which IEEE double arithmetic *)
(* and exact arithmetic give the same truncated results.                   *)
(*                                                                         *)
(* SpecTrain covers the training module                                    *)
(* (src/ml-service/models/price_predictor.py): predictor objects and the   *)
(* files they are saved to and loaded from.                                *)
(***************************************************************************)
EXTENDS Integers, Sequences, FiniteSets, TLC

VARIABLES
    models,     \* the module-level dict `models`, as the sequence of its keys
    started,    \* TRUE once the startup event has run load_models()
    resp,       \* the response of the last request handled
    call,       \* the last direct call of a helper function and its result
    predictors, \* the predictor object each program variable of a training run holds
    artifacts,  \* the joblib file at each path
    ended       \* the last operation of the training module and how it ended

training == <<predictors, artifacts, ended>>

vars == <<models, started, resp, call, predictors, artifacts, ended>>

(***************************************************************************)
(* Numbers                                                                 *)
(***************************************************************************)
Abs(x) == IF x < 0 THEN -x ELSE x

RECURSIVE Gcd(_, _)
Gcd(a, b) == IF b = 0 THEN a ELSE Gcd(b, a % b)

\* the float n/d
Rat(n, d) ==
    LET g == Gcd(Abs(n), Abs(d))
        s == IF d < 0 THEN -1 ELSE 1
    IN  <<(s * n) \div g, (s * d) \div g>>

RInt(i) == <<i, 1>>
RAdd(a, b) == Rat(a[1] * b[2] + b[1] * a[2], a[2] * b[2])
RSub(a, b) == Rat(a[1] * b[2] - b[1] * a[2], a[2] * b[2])
RMul(a, b) == Rat(a[1] * b[1], a[2] * b[2])
RLe(a, b) == a[1] * b[2] <= b[1] * a[2]
RMin(a, b) == IF RLe(b, a) THEN b ELSE a   \* Python min(a, b): a unless b < a
RMax(a, b) == IF RLe(a, b) /\ a # b THEN b ELSE a

\* int(x): truncation toward zero
Trunc(a) == IF a[1] >= 0 THEN a[1] \div a[2] ELSE -((-a[1]) \div a[2])

Min(a, b) == IF b < a THEN b ELSE a
Max(a, b) == IF b > a THEN b ELSE a

(***************************************************************************)
(* Optional values: None is <<>>, a given value v is <<v>>.                *)
(***************************************************************************)
None == <<>>
Some(v) == <<v>>
IsNone(o) == Len(o) = 0

\* a dict entry of market_metrics (Dict[str, Any]): absent, a number, or a
\* value that is no number
Absent == [has |-> FALSE, num |-> FALSE, v |-> 0]
Num(x) == [has |-> TRUE, num |-> TRUE, v |-> x]
NotNum == [has |-> TRUE, num |-> FALSE, v |-> 0]

\* market_metrics: Optional[Dict[str, Any]].  `other` says the mapping holds
\* a key none of the helpers reads.
NoMetrics ==
    [given |-> FALSE, days_on_market_avg |-> Absent, appreciation_1y |-> Absent,
     market_temperature |-> None, other |-> FALSE]

Metrics(d, a, t, o) ==
    [given |-> TRUE, days_on_market_avg |-> d, appreciation_1y |-> a,
     market_temperature |-> t, other |-> o]

\* len(market_metrics) > 0
NonEmpty(mm) ==
    \/ mm.days_on_market_avg.has
    \/ mm.appreciation_1y.has
    \/ ~IsNone(mm.market_temperature)
    \/ mm.other

\* Python truth value of an Optional[Dict]: None and {} are false
TruthyDict(mm) == mm.given /\ NonEmpty(mm)

\* Python truth value of an Optional[int]: None and 0 are false
TruthyInt(o) == ~IsNone(o) /\ o[1] # 0

\* Python truth value of an Optional[float]: None and 0.0 are false
TruthyFloat(o) == ~IsNone(o) /\ o[1][1] # 0

(***************************************************************************)
(* Scoring helpers of /investment-score                                    *)
(***************************************************************************)

\* calculate_appreciation_score(list_price, predicted_price, appreciation_forecast)
\* list_price: int, predicted_price: Optional[int], appreciation_forecast:
\* Optional[float].  The result is a float unless the forecast branch ran.
calculate_appreciation_score(list_price, predicted_price, appreciation_forecast) ==
    LET score0 == RInt(50)
        upside == RMul(Rat(predicted_price[1] - list_price, list_price), RInt(100))
        score1 == IF TruthyInt(predicted_price) /\ list_price # 0
                  THEN RMin(RInt(100), RMax(RInt(0), RAdd(RInt(50), RMul(upside, RInt(5)))))
                  ELSE score0
        blend  == RMul(RAdd(score1, RMul(appreciation_forecast[1], RInt(5))), Rat(1, 2))
    IN  IF TruthyFloat(appreciation_forecast)
        THEN RInt(Min(100, Trunc(blend)))
        ELSE score1

\* calculate_cash_flow_score raises ZeroDivisionError on list_price = 0
cash_flow_raises(list_price) == list_price = 0

\* calculate_cash_flow_score(list_price, sqft, market_metrics)
calculate_cash_flow_score(list_price, sqft, market_metrics) ==
    LET estimated_rent == RMul(RInt(sqft), Rat(3, 2))
        annual_rent    == RMul(estimated_rent, RInt(12))
        gross_yield    == RMul(RMul(annual_rent, Rat(1, list_price)), RInt(100))
    IN  Min(100, Trunc(RMul(gross_yield, RInt(10))))

\* calculate_market_momentum_score raises TypeError on an appreciation_1y that
\* is no number
momentum_raises(market_metrics) ==
    /\ TruthyDict(market_metrics)
    /\ market_metrics.appreciation_1y.has
    /\ ~market_metrics.appreciation_1y.num

\* calculate_market_momentum_score(market_metrics)
calculate_market_momentum_score(market_metrics) ==
    IF ~TruthyDict(market_metrics)
    THEN 50
    ELSE LET appreciation == IF market_metrics.appreciation_1y.has
                             THEN market_metrics.appreciation_1y.v
                             ELSE 0
         IN  Min(100, Max(0, 50 + appreciation * 3))

\* calculate_liquidity_score raises TypeError on a days_on_market_avg that is
\* no number
liquidity_raises(market_metrics) ==
    /\ TruthyDict(market_metrics)
    /\ market_metrics.days_on_market_avg.has
    /\ ~market_metrics.days_on_market_avg.num

LiquidityDefaultDays == 60

\* variant of calculate_liquidity_score that tests `market_metrics is None`
calculate_liquidity_score_is_none(market_metrics) ==
    IF ~market_metrics.given
    THEN 50
    ELSE LET days_on_market == IF market_metrics.days_on_market_avg.has
                               THEN market_metrics.days_on_market_avg.v
                               ELSE LiquidityDefaultDays
         IN  Max(0, 100 - days_on_market)

\* calculate_liquidity_score(market_metrics)
calculate_liquidity_score(market_metrics) ==
    IF ~TruthyDict(market_metrics)
    THEN 50
    ELSE LET days_on_market == IF market_metrics.days_on_market_avg.has
                               THEN market_metrics.days_on_market_avg.v
                               ELSE LiquidityDefaultDays
         IN  Max(0, 100 - days_on_market)

\* variant of calculate_risk_score whose table puts COLD at 80
calculate_risk_score_cold_80(market_metrics) ==
    IF ~TruthyDict(market_metrics)
    THEN 50
    ELSE LET temperature == IF IsNone(market_metrics.market_temperature)
                            THEN "NEUTRAL"
                            ELSE market_metrics.market_temperature[1]
         IN  CASE temperature = "HOT"     -> 30
               [] temperature = "WARM"    -> 40
               [] temperature = "NEUTRAL" -> 50
               [] temperature = "COOL"    -> 60
               [] temperature = "COLD"    -> 80
               [] OTHER                   -> 50

\* calculate_risk_score(market_metrics)
calculate_risk_score(market_metrics) ==
    IF ~TruthyDict(market_metrics)
    THEN 50
    ELSE LET temperature == IF IsNone(market_metrics.market_temperature)
                            THEN "NEUTRAL"
                            ELSE market_metrics.market_temperature[1]
         IN  CASE temperature = "HOT"     -> 30
               [] temperature = "WARM"    -> 40
               [] temperature = "NEUTRAL" -> 50
               [] temperature = "COOL"    -> 60
               [] temperature = "COLD"    -> 70
               [] OTHER                   -> 50

\* variant of get_risk_level whose bands exclude their upper boundary
get_risk_level_exclusive(risk_score) ==
    IF risk_score < 30 THEN "Low"
    ELSE IF risk_score < 50 THEN "Medium-Low"
    ELSE IF risk_score < 70 THEN "Medium"
    ELSE IF risk_score < 85 THEN "Medium-High"
    ELSE "High"

\* get_risk_level(risk_score)
get_risk_level(risk_score) ==
    IF risk_score <= 30 THEN "Low"
    ELSE IF risk_score <= 50 THEN "Medium-Low"
    ELSE IF risk_score <= 70 THEN "Medium"
    ELSE IF risk_score <= 85 THEN "Medium-High"
    ELSE "High"

\* variant of generate_recommendation that tests cash flow before appreciation
generate_recommendation_cash_first(overall, appreciation, cash_flow, risk) ==
    IF overall >= 80 THEN "Strong Buy - Excellent investment opportunity."
    ELSE IF overall >= 65 THEN "Buy - Good investment potential."
    ELSE IF overall >= 50
         THEN IF cash_flow > 70
              THEN "Consider - Strong cash flow for income investors."
              ELSE IF ~RLe(appreciation, RInt(70))
                   THEN "Consider - Strong appreciation potential for growth investors."
                   ELSE "Hold - Average investment opportunity."
    ELSE IF risk > 70 THEN "Avoid - High risk with below-average returns."
    ELSE "Pass - Look for better alternatives."

\* generate_recommendation(overall, appreciation, cash_flow, risk); overall,
\* cash_flow and risk are ints, appreciation may be a float
generate_recommendation(overall, appreciation, cash_flow, risk) ==
    IF overall >= 80 THEN "Strong Buy - Excellent investment opportunity."
    ELSE IF overall >= 65 THEN "Buy - Good investment potential."
    ELSE IF overall >= 50
         THEN IF ~RLe(appreciation, RInt(70))
              THEN "Consider - Strong appreciation potential for growth investors."
              ELSE IF cash_flow > 70
                   THEN "Consider - Strong cash flow for income investors."
                   ELSE "Hold - Average investment opportunity."
    ELSE IF risk > 70 THEN "Avoid - High risk with below-average returns."
    ELSE "Pass - Look for better alternatives."

\* get_key_factors(appreciation, cash_flow, momentum, liquidity)
get_key_factors(appreciation, cash_flow, momentum, liquidity) ==
    LET f1 == IF RLe(RInt(70), appreciation) THEN <<"Strong appreciation potential">>
              ELSE IF RLe(appreciation, RInt(30)) THEN <<"Limited appreciation upside">>
              ELSE <<>>
        f2 == IF cash_flow >= 70 THEN <<"Excellent cash flow opportunity">>
              ELSE IF cash_flow <= 30 THEN <<"Weak rental yield">>
              ELSE <<>>
        f3 == IF momentum >= 70 THEN <<"Strong market momentum">>
              ELSE IF momentum <= 30 THEN <<"Declining market trend">>
              ELSE <<>>
        f4 == IF liquidity >= 70 THEN <<"High market liquidity">>
              ELSE IF liquidity <= 30
                   THEN <<"Low market liquidity - longer hold times expected">>
              ELSE <<>>
        factors == f1 \o f2 \o f3 \o f4
    IN  IF factors = <<>> THEN <<"Average market conditions">> ELSE factors

\* risk_adjusted_score = int((appreciation + cash_flow) / 2 * (1 - risk / 200))
risk_adjusted(appreciation_score, cash_flow_score, risk_score) ==
    Trunc(RMul(RMul(RAdd(appreciation_score, RInt(cash_flow_score)), Rat(1, 2)),
               RSub(RInt(1), Rat(risk_score, 200))))

\* variant of weighted_overall that truncates every weighted term before adding
weighted_overall_per_step(a, c, r, m, l) ==
    Trunc(RMul(a, Rat(30, 100))) + Trunc(Rat(25 * c, 100)) + Trunc(Rat(20 * r, 100))
        + Trunc(Rat(15 * m, 100)) + Trunc(Rat(10 * l, 100))

\* overall_score = int(0.30 a + 0.25 c + 0.20 r + 0.15 m + 0.10 l)
weighted_overall(a, c, r, m, l) ==
    Trunc(RAdd(RAdd(RAdd(RAdd(RMul(a, Rat(30, 100)),
                              RMul(RInt(c), Rat(25, 100))),
                         RMul(RInt(r), Rat(20, 100))),
                    RMul(RInt(m), Rat(15, 100))),
               RMul(RInt(l), Rat(10, 100))))

\* the body of the /investment-score handler on a request record
investment_score_response(request) ==
    IF cash_flow_raises(request.list_price)
    THEN [kind |-> "error", endpoint |-> "/investment-score", request |-> request,
          error |-> "ZeroDivisionError"]
    ELSE IF momentum_raises(request.market_metrics)
            \/ liquidity_raises(request.market_metrics)
    THEN [kind |-> "error", endpoint |-> "/investment-score", request |-> request,
          error |-> "TypeError"]
    ELSE
    LET appreciation_score == calculate_appreciation_score(
            request.list_price, request.predicted_price, request.appreciation_forecast)
        cash_flow_score == calculate_cash_flow_score(
            request.list_price, request.sqft, request.market_metrics)
        market_momentum_score == calculate_market_momentum_score(request.market_metrics)
        liquidity_score == calculate_liquidity_score(request.market_metrics)
        risk_score == calculate_risk_score(request.market_metrics)
        risk_adjusted_score == risk_adjusted(appreciation_score, cash_flow_score, risk_score)
        overall_score == weighted_overall(appreciation_score, cash_flow_score,
            risk_adjusted_score, market_momentum_score, liquidity_score)
    IN  [kind |-> "score", endpoint |-> "/investment-score", request |-> request,
         overall_score |-> overall_score,
         appreciation_score |-> appreciation_score,
         cash_flow_score |-> cash_flow_score,
         risk_adjusted_score |-> risk_adjusted_score,
         market_momentum_score |-> market_momentum_score,
         liquidity_score |-> liquidity_score,
         risk_score |-> risk_score,
         risk_level |-> get_risk_level(risk_score),
         recommendation |-> generate_recommendation(
             overall_score, appreciation_score, cash_flow_score, risk_score),
         key_factors |-> get_key_factors(
             appreciation_score, cash_flow_score, market_momentum_score, liquidity_score)]

(***************************************************************************)
(* Helpers of /predict and /comps                                          *)
(***************************************************************************)

\* variant of estimate_price_per_sqft whose default is the lowest table entry
estimate_price_per_sqft_low_default(zip_code, property_type) ==
    CASE property_type = "SINGLE_FAMILY" -> 250
      [] property_type = "CONDO"         -> 300
      [] property_type = "TOWNHOUSE"     -> 275
      [] property_type = "MULTI_FAMILY"  -> 200
      [] OTHER                           -> 200

\* estimate_price_per_sqft(zip_code, property_type)
estimate_price_per_sqft(zip_code, property_type) ==
    CASE property_type = "SINGLE_FAMILY" -> 250
      [] property_type = "CONDO"         -> 300
      [] property_type = "TOWNHOUSE"     -> 275
      [] property_type = "MULTI_FAMILY"  -> 200
      [] OTHER                           -> 250

\* encode_property_type(property_type)
encode_property_type(property_type) ==
    CASE property_type = "SINGLE_FAMILY" -> 1
      [] property_type = "CONDO"         -> 2
      [] property_type = "TOWNHOUSE"     -> 3
      [] property_type = "MULTI_FAMILY"  -> 4
      [] property_type = "LAND"          -> 5
      [] property_type = "COMMERCIAL"    -> 6
      [] OTHER                           -> 1

\* variant of confidence_margin that rounds to the nearest integer
confidence_margin_rounded(predicted_price) ==
    Trunc(RAdd(RMul(RInt(predicted_price), Rat(10, 100)), Rat(1, 2)))

\* confidence_margin = int(predicted_price * 0.10)
confidence_margin(predicted_price) == Trunc(RMul(RInt(predicted_price), Rat(10, 100)))

\* the static feature-importance table of /predict, in hundredths
feature_importance ==
    [sqft |-> 35, location |-> 25, bedrooms |-> 15, bathrooms |-> 10,
     property_age |-> 8, lot_size |-> 7]

\* the feature vector /predict builds for the model
feature_vector(features, current_year) ==
    <<features.sqft,
      features.bedrooms,
      features.bathrooms,
      current_year - (IF TruthyInt(features.year_built) THEN features.year_built[1] ELSE 1990),
      IF TruthyInt(features.lot_size) THEN features.lot_size[1] ELSE features.sqft * 2,
      encode_property_type(features.property_type),
      features.latitude,
      features.longitude>>

\* the response /predict builds from the predicted price and the forecast draw
prediction_response(features, fv, predicted_price, appreciation) ==
    [kind |-> "predict", endpoint |-> "/predict", request |-> features,
     feature_vector |-> fv,
     property_id |-> features.property_id,
     predicted_price |-> predicted_price,
     confidence_interval |->
         [low  |-> predicted_price - confidence_margin(predicted_price),
          high |-> predicted_price + confidence_margin(predicted_price)],
     appreciation_forecast |-> appreciation,
     feature_importance |-> feature_importance,
     model_version |-> "1.0.0"]

\* sorted(comps, key=similarity, reverse=True): stable, equal keys keep their order
RECURSIVE InsertBySimilarity(_, _)
InsertBySimilarity(sorted, comp) ==
    IF sorted = <<>> THEN <<comp>>
    ELSE IF Head(sorted).similarity >= comp.similarity
         THEN <<Head(sorted)>> \o InsertBySimilarity(Tail(sorted), comp)
         ELSE <<comp>> \o sorted

RECURSIVE SortBySimilarity(_)
SortBySimilarity(comps) ==
    IF comps = <<>> THEN <<>>
    ELSE InsertBySimilarity(SortBySimilarity(SubSeq(comps, 1, Len(comps) - 1)),
                            comps[Len(comps)])

\* one comparable of generate_synthetic_comps: the i-th loop pass (i from 0) with
\* the random draws in `draw`: variance and sqft_noise in thousandths, distance
\* and similarity in hundredths
synthetic_comp(request, i, draw) ==
    [address    |-> 100 + i * 10,
     sold_price |-> Trunc(RMul(RInt(request.sqft * 250), Rat(1000 + draw.variance, 1000))),
     sold_days_ago |-> draw.days,
     sqft       |-> Trunc(RMul(RInt(request.sqft), Rat(1000 + draw.sqft_noise, 1000))),
     bedrooms   |-> request.bedrooms + draw.bedrooms,
     bathrooms  |-> request.bathrooms,
     distance   |-> draw.distance,
     similarity |-> draw.similarity]

\* the number of passes of `for i in range(request.limit)`
range_len(limit) == IF limit < 0 THEN 0 ELSE limit

\* variant of generate_synthetic_comps that returns the list as generated
generate_synthetic_comps_unsorted(request, draws) ==
    [i \in 1..range_len(request.limit) |-> synthetic_comp(request, i - 1, draws[i])]

\* generate_synthetic_comps(request) with the draws of each loop pass
generate_synthetic_comps(request, draws) ==
    SortBySimilarity([i \in 1..range_len(request.limit) |->
                         synthetic_comp(request, i - 1, draws[i])])

\* load_models(): which keys the cache holds afterwards.  has_price, has_appr:
\* the file exists; ok_price, ok_appr: joblib.load of it does not raise.  An
\* exception ends the try block, so a failed first load skips the second.
load_models(has_price, ok_price, has_appr, ok_appr) ==
    IF has_price /\ ~ok_price
    THEN <<>>
    ELSE (IF has_price THEN <<"price_predictor">> ELSE <<>>)
         \o (IF has_appr /\ ok_appr THEN <<"appreciation_model">> ELSE <<>>)

\* `key in models`
InModels(key, cache) == \E i \in 1..Len(cache) : cache[i] = key

(***************************************************************************)
(* Request values the handlers are driven with                             *)
(***************************************************************************)
MaxLimit == 3          \* largest `limit` of a /comps request
MaxRiskScore == 101    \* largest risk score get_risk_level is called with

ScoreListPrices == {-150000, 0, 200000, 300000}
ScoreSqfts == {-100, 1500}
ScorePredictedPrices == {None, Some(0), Some(270000), Some(310000), Some(400000)}
ScoreForecasts == {None, Some(RInt(0)), Some(RInt(-30)), Some(Rat(7, 2)), Some(RInt(40))}
DaysEntries == {Absent, NotNum, Num(-20), Num(45), Num(130)}
AppreciationEntries == {Absent, NotNum, Num(-20), Num(25)}
TemperatureEntries == {None, Some("HOT"), Some("WARM"), Some("COLD"), Some("BALMY")}

MarketMetrics ==
    {NoMetrics} \cup
    {Metrics(d, a, t, o) : d \in DaysEntries, a \in AppreciationEntries,
                           t \in TemperatureEntries, o \in BOOLEAN}

InvestmentScoreRequests ==
    [property_id : {"p1"},
     list_price : ScoreListPrices,
     predicted_price : ScorePredictedPrices,
     sqft : ScoreSqfts,
     appreciation_forecast : ScoreForecasts,
     market_metrics : MarketMetrics]

\* requests from a COOL market
CoolMarketRequests ==
    [property_id : {"p1"},
     list_price : {200000, 300000},
     predicted_price : ScorePredictedPrices,
     sqft : ScoreSqfts,
     appreciation_forecast : ScoreForecasts,
     market_metrics : {Metrics(d, a, Some("COOL"), o) :
                           d \in DaysEntries, a \in AppreciationEntries, o \in BOOLEAN}]

PropertyTypes ==
    {"SINGLE_FAMILY", "CONDO", "TOWNHOUSE", "MULTI_FAMILY", "LAND", "COMMERCIAL",
     "MOBILE_HOME", "condo", ""}

PropertyFeatures ==
    [property_id : {"p1"},
     sqft : {-3, 0, 3, 1500},
     bedrooms : {3},
     bathrooms : {2},
     year_built : {None, Some(0), Some(2000)},
     lot_size : {None, Some(5000)},
     property_type : PropertyTypes,
     latitude : {37},
     longitude : {-122},
     zip_code : {"94103"}]

CurrentYears == {2025, 2026}

\* draws of np.random.uniform(3.0, 8.0)
AppreciationDraws == {RInt(3), Rat(79, 10)}

\* what models["price_predictor"].predict(feature_vector)[0] may do: raise, or
\* return a number (given here already truncated by int())
ModelOutcomes ==
    {[raises |-> TRUE, price |-> 0]} \cup
    {[raises |-> FALSE, price |-> p] : p \in {-15, 0, 15, 825, 375000}}

CompsRequests ==
    [property_id : {"p1"},
     latitude : {37},
     longitude : {-122},
     sqft : {-5, 5, 1500, 1505},
     bedrooms : {3},
     bathrooms : {2},
     property_type : {"CONDO"},
     limit : (-1)..MaxLimit]

\* the random draws of one loop pass of generate_synthetic_comps
CompDraws ==
    {[variance |-> -150, days |-> 30, sqft_noise |-> -100, bedrooms |-> -1,
      distance |-> 10, similarity |-> 75],
     [variance |-> 149, days |-> 179, sqft_noise |-> 99, bedrooms |-> 1,
      distance |-> 200, similarity |-> 95],
     [variance |-> 0, days |-> 90, sqft_noise |-> -92, bedrooms |-> 0,
      distance |-> 105, similarity |-> 85],
     [variance |-> 62, days |-> 45, sqft_noise |-> 50, bedrooms |-> 0,
      distance |-> 55, similarity |-> 85]}

(***************************************************************************)
(* The training module (src/ml-service/models/price_predictor.py)          *)
(*                                                                         *)
(* A model attribute is "None", "unfitted" (an estimator that was created  *)
(* but whose fit has not succeeded) or "fitted".  fit_completed is a       *)
(* history field: fit has run to its end on the object, or on the object   *)
(* whose saved state it was loaded from.                                   *)
(***************************************************************************)
MaxPredictors == 2     \* program variables holding predictor objects

Slots == 1..MaxPredictors
Paths == {"model.joblib"}
PredictorClasses == {"PropertyPricePredictor", "AppreciationPredictor"}

NoObject == [cls |-> "none"]
NoFile == [keys |-> "none"]
NoOutcome == [op |-> "none"]

\* PropertyPricePredictor.__init__
price_init ==
    [cls |-> "PropertyPricePredictor", xgb_model |-> "None", lgb_model |-> "None",
     preprocessor |-> "None", feature_names |-> "None", is_fitted |-> FALSE,
     fit_completed |-> FALSE]

\* AppreciationPredictor.__init__
appreciation_init ==
    [cls |-> "AppreciationPredictor", model |-> "None", scaler |-> "unfitted",
     is_fitted |-> FALSE, fit_completed |-> FALSE]

\* the passes of PropertyPricePredictor.fit; fail_at names the statement
\* that raises, 0 for none:
\*   1 _engineer_features / train_test_split   2 preprocessor.fit_transform
\*   3 preprocessor.transform / feature names  4 xgb_model.fit
\*   5 lgb_model.fit                           6 the evaluation of the ensemble
PriceFitFailures == 0..6

Reached(fail_at, step) == fail_at = 0 \/ fail_at >= step

price_fit(self, fail_at) ==
    [cls |-> self.cls,
     preprocessor |-> IF Reached(fail_at, 3) THEN "fitted"
                      ELSE IF Reached(fail_at, 2) THEN "unfitted"
                      ELSE self.preprocessor,
     feature_names |-> IF Reached(fail_at, 4) THEN "set" ELSE self.feature_names,
     xgb_model |-> IF Reached(fail_at, 5) THEN "fitted"
                   ELSE IF Reached(fail_at, 4) THEN "unfitted"
                   ELSE self.xgb_model,
     lgb_model |-> IF Reached(fail_at, 6) THEN "fitted"
                   ELSE IF Reached(fail_at, 5) THEN "unfitted"
                   ELSE self.lgb_model,
     is_fitted |-> IF fail_at = 0 THEN TRUE ELSE self.is_fitted,
     fit_completed |-> IF fail_at = 0 THEN TRUE ELSE self.fit_completed]

\* the passes of AppreciationPredictor.fit; fail_at names the statement that
\* raises, 0 for none:
\*   1 scaler.fit_transform   2 train_test_split   3 model.fit   4 the evaluation
AppreciationFitFailures == 0..4

appreciation_fit(self, fail_at) ==
    [cls |-> self.cls,
     scaler |-> IF Reached(fail_at, 2) THEN "fitted" ELSE self.scaler,
     model |-> IF Reached(fail_at, 4) THEN "fitted"
               ELSE IF Reached(fail_at, 3) THEN "unfitted"
               ELSE self.model,
     is_fitted |-> IF fail_at = 0 THEN TRUE ELSE self.is_fitted,
     fit_completed |-> IF fail_at = 0 THEN TRUE ELSE self.fit_completed]

\* calling a method of estimator e: None has no such attribute, an unfitted
\* estimator raises NotFittedError
UseEstimator(e, otherwise) ==
    IF e = "None" THEN "AttributeError"
    ELSE IF e = "unfitted" THEN "NotFittedError"
    ELSE otherwise

\* PropertyPricePredictor.predict: how the call ends
price_predict(self) ==
    IF ~self.is_fitted
    THEN "ValueError: must be fitted"
    ELSE UseEstimator(self.preprocessor,
             UseEstimator(self.xgb_model,
                 UseEstimator(self.lgb_model, "prediction")))

\* PropertyPricePredictor.get_feature_importance: how the call ends
price_get_feature_importance(self) ==
    IF ~self.is_fitted
    THEN "ValueError: must be fitted"
    ELSE UseEstimator(self.xgb_model, UseEstimator(self.lgb_model, "importance"))

\* AppreciationPredictor.predict: how the call ends
appreciation_predict(self) ==
    IF ~self.is_fitted
    THEN "ValueError: must be fitted"
    ELSE UseEstimator(self.scaler, UseEstimator(self.model, "prediction"))

\* what save() hands to joblib.dump
saved_state(self) ==
    IF self.cls = "PropertyPricePredictor"
    THEN [keys |-> "PropertyPricePredictor", xgb_model |-> self.xgb_model,
          lgb_model |-> self.lgb_model, preprocessor |-> self.preprocessor,
          feature_names |-> self.feature_names, fit_completed |-> self.fit_completed]
    ELSE [keys |-> "AppreciationPredictor", model |-> self.model,
          scaler |-> self.scaler, fit_completed |-> self.fit_completed]

\* load() raises when the file is missing or lacks the keys the class reads
load_raises(class, data) ==
    IF data = NoFile THEN "FileNotFoundError"
    ELSE IF data.keys # class THEN "KeyError"
    ELSE "none"

\* the predictor load() builds from the file's content
loaded(class, data) ==
    IF class = "PropertyPricePredictor"
    THEN [cls |-> class, xgb_model |-> data.xgb_model, lgb_model |-> data.lgb_model,
          preprocessor |-> data.preprocessor, feature_names |-> data.feature_names,
          is_fitted |-> TRUE, fit_completed |-> data.fit_completed]
    ELSE [cls |-> class, model |-> data.model, scaler |-> data.scaler,
          is_fitted |-> TRUE, fit_completed |-> data.fit_completed]

(***************************************************************************)
(* The service: startup, then requests                                     *)
(***************************************************************************)
NoResponse == [kind |-> "none"]
NoCall == [fn |-> "none"]

Init ==
    /\ models = <<>>
    /\ started = FALSE
    /\ resp = NoResponse
    /\ call = NoCall
    /\ predictors = [v \in Slots |-> NoObject]
    /\ artifacts = [path \in Paths |-> NoFile]
    /\ ended = NoOutcome

\* startup_event(): load_models() runs once, before any request is served
startup_event ==
    /\ ~started
    /\ \E has_price, ok_price, has_appr, ok_appr \in BOOLEAN :
           models' = load_models(has_price, ok_price, has_appr, ok_appr)
    /\ started' = TRUE
    /\ UNCHANGED <<resp, call>>
    /\ UNCHANGED training

\* GET /health (the timestamp of the reply is not modelled)
health_check ==
    /\ started
    /\ resp = NoResponse
    /\ resp' = [kind |-> "health", endpoint |-> "/health", status |-> "healthy",
                models_loaded |-> models]
    /\ UNCHANGED <<models, started, call>>
    /\ UNCHANGED training

\* the body of the /predict handler
predict_price_body(cache, features, current_year, outcome, appreciation) ==
    LET price_per_sqft_estimate ==
            estimate_price_per_sqft(features.zip_code, features.property_type)
        fv == feature_vector(features, current_year)
    IN  IF InModels("price_predictor", cache)
        THEN IF outcome.raises
             THEN [kind |-> "error", endpoint |-> "/predict", request |-> features,
                   error |-> "Exception"]
             ELSE prediction_response(features, fv, outcome.price, appreciation)
        ELSE prediction_response(features, fv,
                                 features.sqft * price_per_sqft_estimate, appreciation)

\* variant of predict_price that loads the price model on first use
predict_price_lazy_load ==
    /\ started
    /\ resp = NoResponse
    /\ \E features \in PropertyFeatures, current_year \in CurrentYears,
          outcome \in ModelOutcomes, appreciation \in AppreciationDraws :
           resp' = predict_price_body(models, features, current_year, outcome, appreciation)
    /\ models' = IF InModels("price_predictor", models)
                 THEN models
                 ELSE models \o <<"price_predictor">>
    /\ UNCHANGED <<started, call>>
    /\ UNCHANGED training

\* POST /predict
predict_price ==
    /\ started
    /\ resp = NoResponse
    /\ \E features \in PropertyFeatures, current_year \in CurrentYears,
          outcome \in ModelOutcomes, appreciation \in AppreciationDraws :
           resp' = predict_price_body(models, features, current_year, outcome, appreciation)
    /\ UNCHANGED <<models, started, call>>
    /\ UNCHANGED training

\* POST /comps
find_comparables ==
    /\ started
    /\ resp = NoResponse
    /\ \E request \in CompsRequests :
       \E draws \in [1..range_len(request.limit) -> CompDraws] :
           resp' = [kind |-> "comps", endpoint |-> "/comps", request |-> request,
                    property_id |-> request.property_id,
                    comparables |-> generate_synthetic_comps(request, draws),
                    methodology |-> "Distance-weighted similarity scoring"]
    /\ UNCHANGED <<models, started, call>>
    /\ UNCHANGED training

\* POST /investment-score
calculate_investment_score ==
    /\ started
    /\ resp = NoResponse
    /\ \E request \in InvestmentScoreRequests \cup CoolMarketRequests :
           resp' = investment_score_response(request)
    /\ UNCHANGED <<models, started, call>>
    /\ UNCHANGED training

\* the handler returns: the reply goes to the client and the service is idle
\* again (the handlers are coroutines without an await, so one runs at a time)
send_response ==
    /\ started
    /\ resp # NoResponse
    /\ resp' = NoResponse
    /\ UNCHANGED <<models, started, call>>
    /\ UNCHANGED training

Next ==
    \/ startup_event
    \/ send_response
    \/ health_check
    \/ predict_price
    \/ find_comparables
    \/ calculate_investment_score

Spec == Init /\ [][Next]_vars

(***************************************************************************)
(* The helper functions called directly, as a unit test would              *)
(***************************************************************************)
RiskScores == (-1)..MaxRiskScore

RecommendationInputs ==
    {<<o, a, c, r>> : o \in {-5, 49, 50, 64, 65, 79, 80},
                      a \in {RInt(-50), RInt(70), Rat(141, 2), RInt(90)},
                      c \in {-6, 70, 90},
                      r \in {10, 70, 71}}

call_get_risk_level ==
    /\ \E risk_score \in RiskScores :
           call' = [fn |-> "get_risk_level", args |-> <<risk_score>>,
                    result |-> get_risk_level(risk_score)]
    /\ UNCHANGED <<models, started, resp>>
    /\ UNCHANGED training

call_generate_recommendation ==
    /\ \E in \in RecommendationInputs :
           call' = [fn |-> "generate_recommendation", args |-> in,
                    result |-> generate_recommendation(in[1], in[2], in[3], in[4])]
    /\ UNCHANGED <<models, started, resp>>
    /\ UNCHANGED training

NextFn ==
    \/ call_get_risk_level
    \/ call_generate_recommendation

SpecFn == Init /\ [][NextFn]_vars

(***************************************************************************)
(* A training run: operations on predictor objects                         *)
(***************************************************************************)
Serving == <<models, started, resp, call>>

\* v = PropertyPricePredictor() or v = AppreciationPredictor()
construct ==
    /\ \E v \in Slots, class \in PredictorClasses :
           /\ predictors' = [predictors EXCEPT ![v] =
                  IF class = "PropertyPricePredictor" THEN price_init
                  ELSE appreciation_init]
           /\ ended' = [op |-> "construct", v |-> v, result |-> "object"]
    /\ UNCHANGED <<artifacts, Serving>>

\* v.fit(...) on a PropertyPricePredictor
fit_price ==
    /\ \E v \in Slots, fail_at \in PriceFitFailures :
           /\ predictors[v].cls = "PropertyPricePredictor"
           /\ predictors' = [predictors EXCEPT ![v] = price_fit(predictors[v], fail_at)]
           /\ ended' = [op |-> "fit", v |-> v,
                          result |-> IF fail_at = 0 THEN "metrics" ELSE "Exception"]
    /\ UNCHANGED <<artifacts, Serving>>

\* v.fit(...) on an AppreciationPredictor
fit_appreciation ==
    /\ \E v \in Slots, fail_at \in AppreciationFitFailures :
           /\ predictors[v].cls = "AppreciationPredictor"
           /\ predictors' = [predictors EXCEPT ![v] =
                  appreciation_fit(predictors[v], fail_at)]
           /\ ended' = [op |-> "fit", v |-> v,
                          result |-> IF fail_at = 0 THEN "metrics" ELSE "Exception"]
    /\ UNCHANGED <<artifacts, Serving>>

\* v.predict(...)
predict ==
    /\ \E v \in Slots :
           /\ predictors[v] # NoObject
           /\ ended' = [op |-> "predict", v |-> v,
                          result |-> IF predictors[v].cls = "PropertyPricePredictor"
                                     THEN price_predict(predictors[v])
                                     ELSE appreciation_predict(predictors[v])]
    /\ UNCHANGED <<predictors, artifacts, Serving>>

\* v.get_feature_importance()
get_feature_importance ==
    /\ \E v \in Slots :
           /\ predictors[v].cls = "PropertyPricePredictor"
           /\ ended' = [op |-> "get_feature_importance", v |-> v,
                          result |-> price_get_feature_importance(predictors[v])]
    /\ UNCHANGED <<predictors, artifacts, Serving>>

\* v.save(path)
save ==
    /\ \E v \in Slots, path \in Paths :
           /\ predictors[v] # NoObject
           /\ artifacts' = [artifacts EXCEPT ![path] = saved_state(predictors[v])]
           /\ ended' = [op |-> "save", v |-> v, result |-> "saved"]
    /\ UNCHANGED <<predictors, Serving>>

\* v = PropertyPricePredictor.load(path) or v = AppreciationPredictor.load(path)
load ==
    /\ \E v \in Slots, class \in PredictorClasses, path \in Paths :
           LET raised == load_raises(class, artifacts[path])
           IN  /\ predictors' = IF raised = "none"
                                THEN [predictors EXCEPT ![v] = loaded(class, artifacts[path])]
                                ELSE predictors
               /\ ended' = [op |-> "load", v |-> v,
                              result |-> IF raised = "none" THEN "object" ELSE raised]
    /\ UNCHANGED <<artifacts, Serving>>

NextTrain ==
    \/ construct
    \/ fit_price
    \/ fit_appreciation
    \/ predict
    \/ get_feature_importance
    \/ save
    \/ load

SpecTrain == Init /\ [][NextTrain]_vars

(***************************************************************************)
(* Claims                                                                  *)
(***************************************************************************)
IsScore == resp.kind = "score"
IsPredict == resp.kind = "predict"
IsComps == resp.kind = "comps"

InRange(x) == 0 <= x /\ x <= 100
RInRange(x) == RLe(RInt(0), x) /\ RLe(x, RInt(100))

\* C1: in every /investment-score response the appreciation, cash-flow,
\* market-momentum and liquidity scores and the overall score lie in 0..100.
C1_ScoresInRange ==
    IsScore =>
        /\ RInRange(resp.appreciation_score)
        /\ InRange(resp.cash_flow_score)
        /\ InRange(resp.market_momentum_score)
        /\ InRange(resp.liquidity_score)
        /\ InRange(resp.overall_score)

ExampleRequest ==
    [property_id |-> "p1", list_price |-> 300000, predicted_price |-> None,
     sqft |-> 1500, appreciation_forecast |-> None, market_metrics |-> NoMetrics]

IsExample == IsScore /\ resp.request = ExampleRequest

\* C2 as stated: the example request (list_price 300000, sqft 1500, nothing
\* else) scores appreciation 50, cash flow 90, momentum 50, liquidity 50,
\* risk 50, risk-adjusted 52, overall 53 and is recommended "Hold".
C2_ExampleAsStated ==
    IsExample =>
        /\ resp.appreciation_score = RInt(50)
        /\ resp.cash_flow_score = 90
        /\ resp.market_momentum_score = 50
        /\ resp.liquidity_score = 50
        /\ resp.risk_score = 50
        /\ resp.risk_adjusted_score = 52
        /\ resp.overall_score = 53
        /\ resp.recommendation = "Hold - Average investment opportunity."

\* C2 amended: the example request scores appreciation 50, cash flow 90,
\* momentum 50, liquidity 50, risk 50, risk-adjusted 52, overall 60, and is
\* recommended "Consider - Strong cash flow for income investors."
C2_Example ==
    IsExample =>
        /\ resp.appreciation_score = RInt(50)
        /\ resp.cash_flow_score = 90
        /\ resp.market_momentum_score = 50
        /\ resp.liquidity_score = 50
        /\ resp.risk_score = 50
        /\ resp.risk_adjusted_score = 52
        /\ resp.overall_score = 60
        /\ resp.recommendation = "Consider - Strong cash flow for income investors."

C2_Witness == IsExample

\* C3 as stated: for every predicted price p of /predict the band is
\* low = p * 0.90 truncated, high = p * 1.10 truncated, and p - low = high - p.
C3_BandAsStated ==
    IsPredict =>
        LET p == resp.predicted_price
            band == resp.confidence_interval
        IN  /\ band.low = Trunc(Rat(9 * p, 10))
            /\ band.high = Trunc(Rat(11 * p, 10))
            /\ p - band.low = band.high - p

\* C3 amended: for every predicted price p of /predict the band is low = p - m
\* and high = p + m with m = p * 0.10 truncated toward zero, so p - low = high - p.
C3_Band ==
    IsPredict =>
        LET p == resp.predicted_price
            band == resp.confidence_interval
            m == IF p >= 0 THEN p \div 10 ELSE -((-p) \div 10)
        IN  /\ band.low = p - m
            /\ band.high = p + m
            /\ p - band.low = band.high - p

\* a fallback prediction whose price is no multiple of 10: 3 sqft of TOWNHOUSE
C3_Witness ==
    /\ IsPredict
    /\ ~InModels("price_predictor", models)
    /\ resp.predicted_price = 825
    /\ resp.confidence_interval = [low |-> 743, high |-> 907]

\* C4: with no price model loaded /predict returns sqft * base[property_type],
\* base being 250, 300, 275, 200 for SINGLE_FAMILY, CONDO, TOWNHOUSE,
\* MULTI_FAMILY and 250 for every other type string (LAND and COMMERCIAL
\* included); and the type encoding is 1 for every type string outside
\* SINGLE_FAMILY, CONDO, TOWNHOUSE, MULTI_FAMILY, LAND, COMMERCIAL.
C4_Fallback ==
    IsPredict =>
        LET t == resp.request.property_type
            base == IF t = "SINGLE_FAMILY" THEN 250
                    ELSE IF t = "CONDO" THEN 300
                    ELSE IF t = "TOWNHOUSE" THEN 275
                    ELSE IF t = "MULTI_FAMILY" THEN 200
                    ELSE 250
        IN  /\ ~InModels("price_predictor", models) =>
                   resp.predicted_price = resp.request.sqft * base
            /\ t \notin {"SINGLE_FAMILY", "CONDO", "TOWNHOUSE", "MULTI_FAMILY",
                         "LAND", "COMMERCIAL"} => resp.feature_vector[6] = 1

\* a fallback prediction for an unrecognized type
C4_Witness ==
    /\ IsPredict
    /\ ~InModels("price_predictor", models)
    /\ resp.request.property_type = "MOBILE_HOME"
    /\ resp.request.sqft = 1500
    /\ resp.predicted_price = 375000

\* the appreciation score as C5 states it: "given" means present in the
\* request, whatever the value (the truncation of the blend is granted)
C5_Stated(list_price, predicted_price, appreciation_forecast) ==
    LET upside5 == RMul(Rat(predicted_price[1] - list_price, list_price), RInt(500))
        score == IF ~IsNone(predicted_price)
                 THEN RMin(RInt(100), RMax(RInt(0), RAdd(RInt(50), upside5)))
                 ELSE RInt(50)
        blend == RMul(RAdd(score, RMul(appreciation_forecast[1], RInt(5))), Rat(1, 2))
    IN  IF ~IsNone(appreciation_forecast)
        THEN RInt(Min(100, Trunc(blend)))
        ELSE score

\* C5: the appreciation score is 50 with neither model price nor forecast;
\* with a model price given (zero included) it is clamp(0, 100, 50 + upside*5);
\* with a forecast given (zero and negative included) it is
\* min(100, (score + forecast*5)/2).
C5_AppreciationAsStated ==
    IsScore =>
        resp.appreciation_score =
            C5_Stated(resp.request.list_price, resp.request.predicted_price,
                      resp.request.appreciation_forecast)

\* C6: overall >= 80 gives "Strong Buy"; else overall >= 65 gives "Buy"; else
\* overall >= 50 gives "Consider (appreciation)" if appreciation > 70, otherwise
\* "Consider (cash flow)" if cash_flow > 70, otherwise "Hold"; else risk > 70
\* gives "Avoid"; else "Pass".
C6_Recommendation ==
    call.fn = "generate_recommendation" =>
        LET overall == call.args[1]
            app_high == ~RLe(call.args[2], RInt(70))
            cash_high == call.args[3] > 70
            risk_high == call.args[4] > 70
            mid == overall >= 50 /\ overall < 65
            r == call.result
        IN  /\ overall >= 80 => r = "Strong Buy - Excellent investment opportunity."
            /\ (overall >= 65 /\ overall < 80) => r = "Buy - Good investment potential."
            /\ (mid /\ app_high) =>
                   r = "Consider - Strong appreciation potential for growth investors."
            /\ (mid /\ ~app_high /\ cash_high) =>
                   r = "Consider - Strong cash flow for income investors."
            /\ (mid /\ ~app_high /\ ~cash_high) =>
                   r = "Hold - Average investment opportunity."
            /\ (overall < 50 /\ risk_high) =>
                   r = "Avoid - High risk with below-average returns."
            /\ (overall < 50 /\ ~risk_high) => r = "Pass - Look for better alternatives."

\* appreciation and cash flow both above 70 with overall in 50..64
C6_Witness ==
    /\ call.fn = "generate_recommendation"
    /\ call.args = <<64, RInt(90), 90, 71>>
    /\ call.result = "Consider - Strong appreciation potential for growth investors."

Severity(level) ==
    CASE level = "Low"         -> 1
      [] level = "Medium-Low"  -> 2
      [] level = "Medium"      -> 3
      [] level = "Medium-High" -> 4
      [] level = "High"        -> 5

C7_Bands ==
    call.fn = "get_risk_level" =>
        LET r == call.args[1]
        IN  call.result = IF r <= 30 THEN "Low"
                          ELSE IF r <= 50 THEN "Medium-Low"
                          ELSE IF r <= 70 THEN "Medium"
                          ELSE IF r <= 85 THEN "Medium-High"
                          ELSE "High"

C7_Monotone ==
    (/\ call.fn = "get_risk_level"
     /\ call'.fn = "get_risk_level"
     /\ call.args[1] <= call'.args[1]) => Severity(call.result) <= Severity(call'.result)

\* C7: the risk level is the step function <= 30 Low, <= 50 Medium-Low,
\* <= 70 Medium, <= 85 Medium-High, otherwise High, and of two calls the one
\* with the higher risk score never gets the less severe level.
C7_RiskLevel == [](C7_Bands) /\ [][C7_Monotone]_vars

C7_Witness ==
    /\ call.fn = "get_risk_level"
    /\ call.args[1] = 86
    /\ call.result = "High"

\* max(0, 100 - d), d the mapping's days_on_market_avg or 60 when absent
C8_FromDays(mm) ==
    LET d == IF mm.days_on_market_avg.has THEN mm.days_on_market_avg.v ELSE 60
    IN  IF 100 - d < 0 THEN 0 ELSE 100 - d

\* C8 as stated: liquidity is 50 when the request carries no market metrics,
\* and max(0, 100 - d) for every request that carries a mapping, d defaulting
\* to 60 (so 40 for a mapping with no keys).
C8_LiquidityAsStated ==
    IsScore =>
        resp.liquidity_score =
            IF ~resp.request.market_metrics.given
            THEN 50
            ELSE C8_FromDays(resp.request.market_metrics)

\* C8 amended: liquidity is 50 when the request carries no market metrics or
\* an empty mapping, and max(0, 100 - d) for every request that carries a
\* non-empty mapping, d defaulting to 60.
C8_Liquidity ==
    IsScore =>
        LET mm == resp.request.market_metrics
            empty == /\ ~mm.days_on_market_avg.has
                     /\ ~mm.appreciation_1y.has
                     /\ mm.market_temperature = <<>>
                     /\ ~mm.other
        IN  resp.liquidity_score =
                IF ~mm.given \/ empty THEN 50 ELSE C8_FromDays(mm)

\* a non-empty mapping without days_on_market_avg
C8_Witness ==
    /\ IsScore
    /\ resp.request.market_metrics = Metrics(Absent, Absent, None, TRUE)
    /\ resp.liquidity_score = 40

C9_Sorted ==
    \A i, j \in 1..Len(resp.comparables) :
        i < j => resp.comparables[i].similarity >= resp.comparables[j].similarity

\* C9 as stated: the list has length exactly N, is ordered by similarity
\* non-increasing, and every sqft is within 10% of the query sqft.
C9_CompsAsStated ==
    IsComps =>
        /\ Len(resp.comparables) = resp.request.limit
        /\ C9_Sorted
        /\ \A i \in 1..Len(resp.comparables) :
               10 * Abs(resp.comparables[i].sqft - resp.request.sqft)
                   <= Abs(resp.request.sqft)

\* C9 amended: the list has length N for N >= 0 and is empty for N < 0, is
\* ordered by similarity non-increasing, and every sqft is the truncation
\* toward zero of a value within 10% of the query sqft.
C9_Comps ==
    IsComps =>
        LET q == resp.request.sqft
            n == resp.request.limit
            lo == Min(Trunc(Rat(9 * q, 10)), Trunc(Rat(11 * q, 10)))
            hi == Max(Trunc(Rat(9 * q, 10)), Trunc(Rat(11 * q, 10)))
        IN  /\ Len(resp.comparables) = IF n < 0 THEN 0 ELSE n
            /\ C9_Sorted
            /\ \A i \in 1..Len(resp.comparables) :
                   lo <= resp.comparables[i].sqft /\ resp.comparables[i].sqft <= hi

\* three comparables, generated in ascending similarity, one of them with a
\* sqft truncated to below 90% of the query's
C9_Witness ==
    /\ IsComps
    /\ resp.request.limit = 3
    /\ resp.request.sqft = 5
    /\ Len(resp.comparables) = 3
    /\ resp.comparables[1].address > resp.comparables[2].address
    /\ \E i \in 1..3 : resp.comparables[i].sqft = 4

\* C10: once startup has completed no request changes the model cache, and
\* /health reports the cache as startup left it.
C10_CacheReadOnly ==
    /\ [][started => (started' /\ models' = models)]_vars
    /\ [](resp.kind = "health" => resp.models_loaded = models)

\* a /health reply after a startup that loaded both models
C10_Witness ==
    /\ started
    /\ resp.kind = "health"
    /\ resp.models_loaded = <<"price_predictor", "appreciation_model">>

\* C12: in every /investment-score response the risk score is one of 30, 40,
\* 50, 60, 70, so the risk level is Low, Medium-Low or Medium and the
\* recommendation is never "Avoid".
C12_RiskScore ==
    IsScore =>
        /\ resp.risk_score \in {30, 40, 50, 60, 70}
        /\ resp.risk_level \in {"Low", "Medium-Low", "Medium"}
        /\ resp.recommendation # "Avoid - High risk with below-average returns."

\* the riskiest market, COLD, with an overall score below 50
C12_Witness ==
    /\ IsScore
    /\ resp.request.market_metrics.market_temperature = Some("COLD")
    /\ resp.risk_score = 70
    /\ resp.risk_level = "Medium"
    /\ resp.overall_score < 50
    /\ resp.recommendation = "Pass - Look for better alternatives."

(***************************************************************************)
(* The training module: the fitted flag                                    *)
(***************************************************************************)
IsPredictor(o) == o # NoObject

HoldsFittedModels(o) ==
    IF o.cls = "PropertyPricePredictor"
    THEN o.xgb_model = "fitted" /\ o.lgb_model = "fitted" /\ o.preprocessor = "fitted"
    ELSE o.model = "fitted"

MustBeFitted == "ValueError: must be fitted"

\* C11: predict or get_feature_importance on an object on which fit has not
\* completed (never fitted, fit failed partway, or loaded from the saved state
\* of such an object) ends with the 'must be fitted' ValueError.
C11_UnfittedRaises ==
    (/\ ended.op \in {"predict", "get_feature_importance"}
     /\ ~predictors[ended.v].fit_completed)
        => ended.result = MustBeFitted

\* C13: every predictor whose is_fitted flag is true holds fitted, non-null
\* models: xgb_model, lgb_model and preprocessor, respectively model.
C13_FittedHoldsModels ==
    \A v \in Slots :
        (IsPredictor(predictors[v]) /\ predictors[v].is_fitted)
            => HoldsFittedModels(predictors[v])

====
